---- MODULE Spec2Model ----
(***************************************************************************)
(* A model of s3bench.py: the command line of main, load_config, the timed *)
(* loop of run_benchmark / run_benchmark_once, and calculate_stats with    *)
(* print_results.                                                          *)
(*                                                                         *)
(* Python floats are IEEE-754 binary64 values.  A float is modelled as the *)
(* record [s, m, e] standing for (-1)^s * m * 2^e, where m is a natural    *)
(* number of exactly 53 bits (or 0) held as a little-endian sequence of    *)
(* 15-bit limbs.  Every arithmetic operation computes the exact result and *)
(* rounds it to nearest, ties to even, as the hardware does; the one       *)
(* exception is x ** 2, the C library's pow, which may return either float *)
(* next to the exact square.  The inputs used keep every exponent far      *)
(* inside the binary64 range, so overflow and subnormal results do not     *)
(* arise.                                                                  *)
(***************************************************************************)
EXTENDS Integers, Sequences, FiniteSets, TLC

------------------------------------------------------------------------------
(* Python values held by the configuration: the str s is Str(s), and None  *)
(* is a value of its own, different from every str (from Str("None") too). *)

Str(s) == [t |-> "str", v |-> s]

None == [t |-> "NoneType", v |-> ""]

\* str(v), as an f-string formats a str or None
py_str(v) == IF v = None THEN "None" ELSE v.v

\* a name that is not bound (yet)
Unbound == [t |-> "unbound", v |-> ""]

\* no exception was raised
NoExc == "no exception"

------------------------------------------------------------------------------
(* Natural numbers of arbitrary size: little-endian limbs, no leading zero. *)

LimbBits == 15
Base == 2^15

Limb(a, i) == IF i <= Len(a) THEN a[i] ELSE 0

RECURSIVE BTrim(_)
BTrim(a) ==
  IF a = <<>> THEN a
  ELSE IF a[Len(a)] = 0 THEN BTrim(SubSeq(a, 1, Len(a) - 1)) ELSE a

RECURSIVE BAddFrom(_, _, _, _)
BAddFrom(a, b, i, c) ==
  IF i > Len(a) /\ i > Len(b)
  THEN (IF c = 0 THEN <<>> ELSE <<c>>)
  ELSE LET t == Limb(a, i) + Limb(b, i) + c
       IN  <<t % Base>> \o BAddFrom(a, b, i + 1, t \div Base)

BAdd(a, b) == BAddFrom(a, b, 1, 0)

RECURSIVE BSubFrom(_, _, _, _)
BSubFrom(a, b, i, br) ==
  IF i > Len(a) THEN <<>>
  ELSE LET d == Limb(a, i) - Limb(b, i) - br
       IN  <<d % Base>> \o BSubFrom(a, b, i + 1, IF d < 0 THEN 1 ELSE 0)

\* a - b for a >= b
BSub(a, b) == BTrim(BSubFrom(a, b, 1, 0))

RECURSIVE BCmpAt(_, _, _)
BCmpAt(a, b, i) ==
  IF i = 0 THEN 0
  ELSE IF a[i] > b[i] THEN 1
  ELSE IF a[i] < b[i] THEN -1
  ELSE BCmpAt(a, b, i - 1)

\* -1, 0 or 1 as a < b, a = b, a > b
BCmp(a, b) ==
  IF Len(a) > Len(b) THEN 1
  ELSE IF Len(a) < Len(b) THEN -1
  ELSE BCmpAt(a, b, Len(a))

RECURSIVE BMulSmallFrom(_, _, _, _)
BMulSmallFrom(a, k, i, c) ==
  IF i > Len(a)
  THEN (IF c = 0 THEN <<>> ELSE <<c>>)
  ELSE LET p == a[i] * k + c
       IN  <<p % Base>> \o BMulSmallFrom(a, k, i + 1, p \div Base)

\* a * k for 0 <= k < Base
BMulSmall(a, k) == BTrim(BMulSmallFrom(a, k, 1, 0))

BShiftLimbs(a, n) == IF a = <<>> THEN a ELSE [i \in 1..n |-> 0] \o a

RECURSIVE BMulFrom(_, _, _)
BMulFrom(a, b, j) ==
  IF j > Len(b) THEN <<>>
  ELSE BAdd(BShiftLimbs(BMulSmall(a, b[j]), j - 1), BMulFrom(a, b, j + 1))

BMul(a, b) == BMulFrom(a, b, 1)

RECURSIVE BDivSmallAt(_, _, _, _)
BDivSmallAt(a, n, i, r) ==
  IF i = 0 THEN [q |-> <<>>, r |-> r]
  ELSE LET cur  == r * Base + a[i]
           rest == BDivSmallAt(a, n, i - 1, cur % n)
       IN  [q |-> rest.q \o <<cur \div n>>, r |-> rest.r]

\* quotient and remainder of a by n, for 1 <= n < Base
BDivSmall(a, n) ==
  LET d == BDivSmallAt(a, n, Len(a), 0) IN [q |-> BTrim(d.q), r |-> d.r]

\* a * 2^k
BShl(a, k) == BShiftLimbs(BMulSmall(a, 2^(k % LimbBits)), k \div LimbBits)

\* floor(a / 2^k), and whether a nonzero bit was shifted out
BShr(a, k) ==
  LET n    == k \div LimbBits
      low  == SubSeq(a, 1, IF n < Len(a) THEN n ELSE Len(a))
      high == SubSeq(a, n + 1, Len(a))
      d    == BDivSmall(high, 2^(k % LimbBits))
  IN  [q |-> d.q, sticky |-> (d.r # 0) \/ (\E i \in 1..Len(low) : low[i] # 0)]

BitLenSmall(x) == CHOOSE n \in 1..LimbBits : 2^(n - 1) <= x /\ x < 2^n

BBitLen(a) ==
  IF a = <<>> THEN 0 ELSE LimbBits * (Len(a) - 1) + BitLenSmall(a[Len(a)])

BOdd(a) == Limb(a, 1) % 2 = 1

\* floor(a / 2)
BHalf(a) == BDivSmall(a, 2).q

\* the bit of weight 2 of a
BSecondBit(a) == (Limb(a, 1) \div 2) % 2 = 1

SqrtDigitBits == 8

\* r with the digit d, of SqrtDigitBits bits, set at bit position sh
BSqrtWith(r, d, sh) == IF d = 0 THEN r ELSE BAdd(r, BShl(<<d>>, sh))

BSqrtFits(a, c) == BCmp(BMul(c, c), a) <= 0

\* the largest digit at position sh that keeps the square of the root at
\* most a, found a bit at a time: d holds the bits above the bit b
RECURSIVE BSqrtBits(_, _, _, _, _)
BSqrtBits(a, r, sh, d, b) ==
  IF b = 0 THEN d
  ELSE IF BSqrtFits(a, BSqrtWith(r, d + b, sh))
  THEN BSqrtBits(a, r, sh, d + b, b \div 2)
  ELSE BSqrtBits(a, r, sh, d, b \div 2)

BSqrtDigit(a, r, sh) == BSqrtBits(a, r, sh, 0, 2^(SqrtDigitBits - 1))

RECURSIVE BSqrtFrom(_, _, _)

\* the digit d found for position j goes into r, and the lower digits follow
BSqrtPut(a, r, d, j) ==
  IF d = 0 THEN BSqrtFrom(a, r, j - 1)
  ELSE BSqrtFrom(a, BSqrtWith(r, d, SqrtDigitBits * j), j - 1)

\* the digits of the root from digit j down to digit 0, r holding those above
BSqrtFrom(a, r, j) ==
  IF j < 0 THEN r
  ELSE BSqrtPut(a, r, BSqrtDigit(a, r, SqrtDigitBits * j), j)

\* floor(sqrt(a))
BSqrt(a) == BSqrtFrom(a, <<>>, (BBitLen(a) \div 2) \div SqrtDigitBits)

------------------------------------------------------------------------------
(* binary64 arithmetic                                                      *)

MantBits == 53

FZero == [s |-> 0, m |-> <<>>, e |-> 0]

IsZero(x) == x.m = <<>>

\* m1 * 2^E with m1 <= 2^53: a carry out of the mantissa moves the exponent
Renormalize(s, E, m1) ==
  IF BBitLen(m1) > MantBits
  THEN [s |-> s, m |-> BHalf(m1), e |-> E + 1]
  ELSE [s |-> s, m |-> m1, e |-> E]

\* sh.q holds the 53 bits kept and, below them, the guard bit; round to
\* nearest, a tie to the even mantissa
RoundGuarded(s, E, sticky, sh) ==
  Renormalize(s, E,
    IF BOdd(sh.q) /\ (sh.sticky \/ sticky \/ BSecondBit(sh.q))
    THEN BAdd(BHalf(sh.q), <<1>>)
    ELSE BHalf(sh.q))

RoundBits(s, M, E, sticky, L) ==
  IF L <= MantBits
  THEN [s |-> s, m |-> BShl(M, MantBits - L), e |-> E - (MantBits - L)]
  ELSE RoundGuarded(s, E + (L - MantBits), sticky, BShr(M, L - MantBits - 1))

\* The float nearest to (-1)^s * (M + f) * 2^E, where 0 < f < 1 when sticky
\* (M then has more than 54 bits) and f = 0 otherwise.
RoundToFloat(s, M, E, sticky) ==
  IF M = <<>> THEN FZero ELSE RoundBits(s, M, E, sticky, BBitLen(M))

\* float(n) for an int n >= 0
FromNat(n) ==
  RoundToFloat(0, BTrim(<<n % Base, (n \div Base) % Base, n \div (Base * Base)>>),
               0, FALSE)

FNeg(x) == IF IsZero(x) THEN x ELSE [x EXCEPT !.s = 1 - x.s]

\* -1, 0, 1 as |x| < |y|, |x| = |y|, |x| > |y|
FCmpAbs(x, y) ==
  IF IsZero(x) THEN (IF IsZero(y) THEN 0 ELSE -1)
  ELSE IF IsZero(y) THEN 1
  ELSE IF x.e > y.e THEN 1
  ELSE IF x.e < y.e THEN -1
  ELSE BCmp(x.m, y.m)

\* x < y
FLt(x, y) ==
  IF x.s = 1 /\ y.s = 0 THEN TRUE
  ELSE IF x.s = 0 /\ y.s = 1 THEN FALSE
  ELSE IF x.s = 0 THEN FCmpAbs(x, y) < 0
  ELSE FCmpAbs(x, y) > 0

FLe(x, y) == ~FLt(y, x)

MinInt(a, b) == IF a < b THEN a ELSE b

\* X * 2^e0 with sign sx plus Y * 2^e0 with sign sy
FAddAligned(sx, sy, X, Y, e0) ==
  RoundToFloat(IF sx = sy \/ BCmp(X, Y) >= 0 THEN sx ELSE sy,
               IF sx = sy THEN BAdd(X, Y)
               ELSE IF BCmp(X, Y) >= 0 THEN BSub(X, Y) ELSE BSub(Y, X),
               e0, FALSE)

\* x + y
FAdd(x, y) ==
  IF IsZero(x) THEN y
  ELSE IF IsZero(y) THEN x
  ELSE FAddAligned(x.s, y.s,
                   BShl(x.m, x.e - MinInt(x.e, y.e)),
                   BShl(y.m, y.e - MinInt(x.e, y.e)),
                   MinInt(x.e, y.e))

\* x - y
FSub(x, y) == FAdd(x, FNeg(y))

\* the floats next to an exact value: the 53 bits kept, and, when a nonzero
\* bit was dropped, the next mantissa up as well
FaithfulGuarded(s, E, sh) ==
  IF sh.sticky
  THEN {[s |-> s, m |-> sh.q, e |-> E], Renormalize(s, E, BAdd(sh.q, <<1>>))}
  ELSE {[s |-> s, m |-> sh.q, e |-> E]}

FaithfulBits(s, M, E, L) ==
  IF L <= MantBits
  THEN {[s |-> s, m |-> BShl(M, MantBits - L), e |-> E - (MantBits - L)]}
  ELSE FaithfulGuarded(s, E + (L - MantBits), BShr(M, L - MantBits))

\* the floats within one unit in the last place of (-1)^s * M * 2^E: the
\* value itself when it is a float, else the float below and the float above
FaithfulFloats(s, M, E) ==
  IF M = <<>> THEN {FZero} ELSE FaithfulBits(s, M, E, BBitLen(M))

DivGuardBits == 20

FDivRound(s, E, d) == RoundToFloat(s, d.q, E, d.r # 0)

\* x / n for an int n with 1 <= n < Base (n converts to a float exactly)
FDivNat(x, n) ==
  IF IsZero(x) THEN FZero
  ELSE FDivRound(x.s, x.e - DivGuardBits,
                 BDivSmall(BShl(x.m, DivGuardBits), n))

SqrtGuardBits == 58

\* the shift that leaves an even exponent
SqrtShift(e) == SqrtGuardBits + ((e - SqrtGuardBits) % 2)

FSqrtRound(E, M, r) == RoundToFloat(0, r, E, BCmp(BMul(r, r), M) # 0)

FSqrtScaled(E, M) == FSqrtRound(E, M, BSqrt(M))

\* math.sqrt(x) for x >= 0
FSqrt(x) ==
  IF IsZero(x) THEN FZero
  ELSE FSqrtScaled((x.e - SqrtShift(x.e)) \div 2, BShl(x.m, SqrtShift(x.e)))

------------------------------------------------------------------------------
(* Standard output: a sequence of parts; the part NL ends a line.  A float  *)
(* part stands for the decimal text str() gives that float, an int part for *)
(* the digits of that int.                                                  *)

Lit(t)       == [k |-> "lit",   t |-> t,  n |-> 0, f |-> FZero]
StrPart(t)   == [k |-> "str",   t |-> t,  n |-> 0, f |-> FZero]
IntPart(n)   == [k |-> "int",   t |-> "", n |-> n, f |-> FZero]
FloatPart(f) == [k |-> "float", t |-> "", n |-> 0, f |-> f]
NL           == [k |-> "nl",    t |-> "", n |-> 0, f |-> FZero]

\* print(text, end=end): the text, then end; end=None is the default "\n"
py_print(out, text, end) == out \o text \o (IF end = None THEN <<NL>> ELSE end)

RECURSIVE LinesFrom(_, _, _)
LinesFrom(out, i, cur) ==
  IF i > Len(out) THEN <<>>
  ELSE IF out[i].k = "nl" THEN <<cur>> \o LinesFrom(out, i + 1, <<>>)
  ELSE LinesFrom(out, i + 1, Append(cur, out[i]))

\* the complete lines written so far
Lines(out) == LinesFrom(out, 1, <<>>)

------------------------------------------------------------------------------
(* Command line and configuration file                                      *)

\* operations = {'list_all': list_all}
operations == {"list_all"}

DefaultNumIters == 10

\* parse_args without choices= on the operation
parse_args_any_operation(argv) ==
  IF argv.num_iters.present /\ ~argv.num_iters.isint
  THEN [err |-> "invalid int value", operation |-> "", num_iters |-> 0]
  ELSE [err |-> NoExc,
        operation |-> argv.operation,
        num_iters |-> IF argv.num_iters.present THEN argv.num_iters.n
                      ELSE DefaultNumIters]

\* parser.parse_args(): argv is [operation, num_iters, flag_first],
\* num_iters being [present, isint, n]: the flag's presence, whether int()
\* accepts its text, and the int it denotes; flag_first says that the flag
\* stands before the operation on the command line.  choices= rejects an
\* unregistered operation and type=int a text that is no int, and argparse
\* reports the first of the two it comes to; nothing checks the sign of the
\* count.
parse_args(argv) ==
  IF /\ argv.num_iters.present /\ ~argv.num_iters.isint
     /\ (argv.flag_first \/ argv.operation \in operations)
  THEN [err |-> "invalid int value", operation |-> "", num_iters |-> 0]
  ELSE IF argv.operation \notin operations
  THEN [err |-> "invalid choice", operation |-> "", num_iters |-> 0]
  ELSE [err |-> NoExc,
        operation |-> argv.operation,
        num_iters |-> IF argv.num_iters.present THEN argv.num_iters.n
                      ELSE DefaultNumIters]

\* get_or_die: the value, or the NameError of the undefined name `self`
get_or_die(obj, attr) ==
  IF attr \in DOMAIN obj THEN [exc |-> NoExc, v |-> obj[attr]]
  ELSE [exc |-> "NameError", v |-> Unbound]

\* get_or_else that never looks into the file
get_or_else_default_only(obj, attr, default) == default

get_or_else(obj, attr, default) ==
  IF attr \in DOMAIN obj THEN obj[attr] ELSE default

\* a configuration that was not loaded
NoConfig == [region |-> Unbound, bucket |-> Unbound, prefix |-> Unbound,
             endpoint |-> Unbound]

\* load_config on the mapping obj that yaml's load returns
load_config(obj) ==
  LET region   == get_or_else(obj, "region", Str("us-east-1"))
      bucket   == get_or_die(obj, "bucket")
      prefix   == get_or_else(obj, "prefix", Str(""))
      endpoint == get_or_else(obj, "endpoint", None)
  IN  IF bucket.exc # NoExc
      THEN [exc |-> bucket.exc, config |-> NoConfig]
      ELSE [exc |-> NoExc,
            config |-> [region |-> region, bucket |-> bucket.v,
                        prefix |-> prefix, endpoint |-> endpoint]]

\* create_fs: fs.S3FileSystem(region=..., endpoint_override=...)
create_fs(config) ==
  [region |-> config.region, endpoint_override |-> config.endpoint]

\* the truth value Python gives a str or None
Truthy(v) == v # Str("") /\ v # None

\* list_all: the recursive selector handed to filesystem.get_file_info
\* (bucket and a truthy prefix being strs)
list_all(filesystem, config) ==
  LET base_path == IF Truthy(config.prefix)
                   THEN Str(config.bucket.v \o "/" \o config.prefix.v)
                   ELSE config.bucket
  IN  [fs |-> filesystem, config |-> config,
       base_path |-> base_path, recursive |-> TRUE]

------------------------------------------------------------------------------
(* calculate_stats                                                          *)

RECURSIVE PyMinFrom(_, _, _)
PyMinFrom(xs, i, m) ==
  IF i > Len(xs) THEN m
  ELSE IF FLt(xs[i], m) THEN PyMinFrom(xs, i + 1, xs[i])
  ELSE PyMinFrom(xs, i + 1, m)

\* min(xs) for a non-empty xs
PyMin(xs) == PyMinFrom(xs, 2, xs[1])

RECURSIVE PyMaxFrom(_, _, _)
PyMaxFrom(xs, i, m) ==
  IF i > Len(xs) THEN m
  ELSE IF FLt(m, xs[i]) THEN PyMaxFrom(xs, i + 1, xs[i])
  ELSE PyMaxFrom(xs, i + 1, m)

\* max(xs) for a non-empty xs
PyMax(xs) == PyMaxFrom(xs, 2, xs[1])

RECURSIVE PySumFrom(_, _, _)
PySumFrom(xs, i, acc) ==
  IF i > Len(xs) THEN acc
  ELSE PySumFrom(xs, i + 1, FAdd(acc, xs[i]))

\* sum(xs): 0 + xs[0] + xs[1] + ..., left to right, each addition rounded
PySum(xs) == PySumFrom(xs, 1, FZero)

\* x ** 2 is float.__pow__, the C library's pow(x, 2.0).  pow is accurate to
\* within one unit in the last place but need not return the nearest float,
\* and which of the two neighbours it returns depends on the library: the
\* values x ** 2 can take
Square(x) ==
  IF IsZero(x) THEN {FZero} ELSE FaithfulFloats(0, BMul(x.m, x.m), x.e + x.e)

\* pow is a function of |x|: equal deviations have equal squares
SameSquares(ds, sq) ==
  \A i, j \in 1..Len(ds) : FCmpAbs(ds[i], ds[j]) = 0 => sq[i] = sq[j]

RECURSIVE SquaresFrom(_, _)
SquaresFrom(ds, i) ==
  IF i > Len(ds) THEN {<<>>}
  ELSE {<<h>> \o t : h \in Square(ds[i]), t \in SquaresFrom(ds, i + 1)}

\* the lists [(t - mean) ** 2 for t in times] can be, ds being the t - mean
Squares(ds) == {sq \in SquaresFrom(ds, 1) : SameSquares(ds, sq)}

Deviations(ts, mean) == [i \in 1..Len(ts) |-> FSub(ts[i], mean)]

\* the record of statistics, given the mean and the squared deviations
stats_with(ts, mean, sq) ==
  [exc    |-> NoExc,
   min    |-> PyMin(ts),
   mean   |-> mean,
   max    |-> PyMax(ts),
   stddev |-> FSqrt(FDivNat(PySum(sq), Len(ts)))]

\* the records of statistics, given the mean
stats_of(ts, mean) ==
  {stats_with(ts, mean, sq) : sq \in Squares(Deviations(ts, mean))}

\* what calculate_stats(ts) can return: min() raises ValueError on an empty
\* sequence, and the stddev is one value for each value the squares can take
calculate_stats(ts) ==
  IF ts = <<>>
  THEN {[exc |-> "ValueError", min |-> FZero, mean |-> FZero,
         max |-> FZero, stddev |-> FZero]}
  ELSE stats_of(ts, FDivNat(PySum(ts), Len(ts)))

NoStats == [exc |-> "unset", min |-> FZero, mean |-> FZero,
            max |-> FZero, stddev |-> FZero]

\* the seven print calls of print_results, in order, on the output so far
report_lines(out, operation, config, st) ==
  out
    \o py_print(<<>>, <<Lit("Operation: "), StrPart(operation)>>, None)
    \o py_print(<<>>, <<Lit("Bucket: "), StrPart(py_str(config.bucket))>>, None)
    \o py_print(<<>>, <<Lit("Prefix: "), StrPart(py_str(config.prefix))>>, None)
    \o py_print(<<>>, <<Lit("Min: "), FloatPart(st.min), Lit("s")>>, None)
    \o py_print(<<>>, <<Lit("Mean: "), FloatPart(st.mean), Lit("s")>>, None)
    \o py_print(<<>>, <<Lit("Max: "), FloatPart(st.max), Lit("s")>>, None)
    \o py_print(<<>>, <<Lit("Standard Deviation: "), FloatPart(st.stddev),
                        Lit("s")>>, None)

print_stats(out, operation, config, st) ==
  IF st.exc # NoExc THEN [exc |-> st.exc, out |-> out, stats |-> st]
  ELSE [exc |-> NoExc, out |-> report_lines(out, operation, config, st),
        stats |-> st]

\* print_results: the statistics first, then the seven printed lines; one
\* outcome for each record calculate_stats can return
print_results(out, operation, config, ts) ==
  {print_stats(out, operation, config, st) : st \in calculate_stats(ts)}

------------------------------------------------------------------------------
(* Inputs                                                                   *)

MaxIters == 3
MaxLen == 3

\* the clock when the process starts (time.time() is seconds since 1970)
T0 == FromNat(1700000000)

Quarter == FDivNat(FromNat(1), 4)
Half    == FDivNat(FromNat(1), 2)
Tenth   == FDivNat(FromNat(1), 10)

\* how long one call of the operation may take
Ticks == {Quarter, Half}

\* the durations calculate_stats is applied to on its own
Samples == {Tenth, FromNat(1), FromNat(2), FromNat(3)}

FileValue == [region   |-> Str("eu-west-1"),
              bucket   |-> Str("my-bucket"),
              prefix   |-> Str("data"),
              endpoint |-> Str("http://localhost:9000")]

\* the mappings a configuration file may hold: any subset of the four keys
FileSet == {[k \in K |-> FileValue[k]] : K \in SUBSET (DOMAIN FileValue)}

NumIters(n) == [present |-> TRUE, isint |-> TRUE, n |-> n]
NotAnInt    == [present |-> TRUE, isint |-> FALSE, n |-> 0]
FlagAbsent  == [present |-> FALSE, isint |-> FALSE, n |-> 0]

ArgvSet ==
  [operation  : {"list_all", "delete_all"},
   num_iters  : {NumIters(n) : n \in (0 - 1)..MaxIters} \cup {NotAnInt},
   flag_first : BOOLEAN]

\* the runs explored: every command line above with every file
Inputs == ArgvSet \X FileSet

------------------------------------------------------------------------------
(* The program                                                              *)

VARIABLES
  argv,       \* the command line
  file,       \* the mapping the configuration file holds
  pc,         \* where the program is
  args,       \* parser.parse_args()
  config,     \* load_config(args.config_file)
  fs,         \* the client create_fs returned
  op,         \* operations[operation]
  itr_idx,    \* the index range(num_iters) yields next
  start,      \* run_benchmark_once's start
  times,      \* run_benchmark's times
  stats,      \* what calculate_stats returned
  stdout,     \* what has been printed
  stderr,     \* the usage error or the traceback
  exc,        \* the exception that reached the top level, if any
  exit_code,  \* the exit status, once pc = "exited"
  now,        \* the clock time.time() reads
  calls,      \* the requests the operation was invoked with
  trace       \* what the program has done, in order

vars == <<argv, file, pc, args, config, fs, op, itr_idx, start, times, stats,
          stdout, stderr, exc, exit_code, now, calls, trace>>

NoArgs == [err |-> "unparsed", operation |-> "", num_iters |-> 0]
NoFs   == [region |-> Unbound, endpoint_override |-> Unbound]

Ev(name, i) == [ev |-> name, i |-> i]

Blank ==
  /\ args = NoArgs
  /\ config = NoConfig
  /\ fs = NoFs
  /\ op = ""
  /\ itr_idx = 0
  /\ start = FZero
  /\ stats = NoStats
  /\ stdout = <<>>
  /\ stderr = <<>>
  /\ exc = NoExc
  /\ exit_code = 0
  /\ now = T0
  /\ calls = <<>>
  /\ trace = <<>>

Init ==
  /\ \E inp \in Inputs : argv = inp[1] /\ file = inp[2]
  /\ pc = "main"
  /\ times = <<>>
  /\ Blank

\* an uncaught exception: the traceback, exit status 1
Uncaught(name) ==
  /\ exc' = name
  /\ stderr' = <<"Traceback (most recent call last):", name>>
  /\ exit_code' = 1
  /\ pc' = "exited"

\* main, line 104: argparse ends the process with status 2 on a bad argument
ParseArgs ==
  /\ pc = "main"
  /\ LET a == parse_args(argv) IN
       /\ args' = a
       /\ IF a.err # NoExc
          THEN /\ stderr' = <<"usage: S3Benchmark", a.err>>
               /\ exit_code' = 2
               /\ pc' = "exited"
          ELSE /\ pc' = "parsed"
               /\ UNCHANGED <<stderr, exit_code>>
  /\ trace' = Append(trace, Ev("parse_args", 0))
  /\ UNCHANGED <<argv, file, config, fs, op, itr_idx, start, times, stats,
                 stdout, exc, now, calls>>

\* main, line 105
LoadConfig ==
  /\ pc = "parsed"
  /\ LET r == load_config(file) IN
       IF r.exc # NoExc
       THEN /\ Uncaught(r.exc)
            /\ UNCHANGED config
       ELSE /\ config' = r.config
            /\ pc' = "loaded"
            /\ UNCHANGED <<exc, stderr, exit_code>>
  /\ trace' = Append(trace, Ev("load_config", 0))
  /\ UNCHANGED <<argv, file, args, fs, op, itr_idx, start, times, stats,
                 stdout, now, calls>>

\* run_benchmark, lines 87-90: the client, the registry lookup, the banner
StartBenchmark ==
  /\ pc = "loaded"
  /\ fs' = create_fs(config)
  /\ IF args.operation \in operations
     THEN /\ op' = args.operation
          /\ stdout' = py_print(stdout, <<Lit("Starting benchmark: "),
                                          StrPart(args.operation)>>, None)
          /\ pc' = "loop"
          /\ UNCHANGED <<exc, stderr, exit_code>>
     ELSE /\ Uncaught("KeyError")
          /\ UNCHANGED <<op, stdout>>
  /\ times' = <<>>
  /\ itr_idx' = 0
  /\ trace' = trace \o <<Ev("create_fs", 0), Ev("lookup", 0)>>
  /\ UNCHANGED <<argv, file, args, config, start, stats, now, calls>>

\* the loop's next index and run_benchmark_once up to the call of op
IterationCall ==
  /\ pc = "loop"
  /\ itr_idx < args.num_iters
  /\ stdout' = py_print(stdout, <<Lit("Iteration "), IntPart(itr_idx),
                                  Lit(": ")>>, None)
  /\ start' = now
  /\ calls' = Append(calls, list_all(fs, config))
  /\ trace' = trace \o <<Ev("print_prefix", itr_idx), Ev("time_start", itr_idx),
                         Ev("invoke", itr_idx)>>
  /\ pc' = "in_op"
  /\ UNCHANGED <<argv, file, args, config, fs, op, itr_idx, times, stats,
                 stderr, exc, exit_code, now>>

\* run_benchmark_once after the call, and the append of what it returns
AfterCall(elapsed) ==
  /\ stdout' = py_print(stdout, <<FloatPart(elapsed), Lit("s")>>, None)
  /\ times' = Append(times, elapsed)

\* op returns after d seconds: end = time.time(), the print, the append
OpReturns(d) ==
  /\ pc = "in_op"
  /\ now' = FAdd(now, d)
  /\ AfterCall(FSub(now', start))
  /\ itr_idx' = itr_idx + 1
  /\ trace' = trace \o <<Ev("return", itr_idx), Ev("time_end", itr_idx),
                         Ev("print_elapsed", itr_idx), Ev("append", itr_idx)>>
  /\ pc' = "loop"
  /\ UNCHANGED <<argv, file, args, config, fs, op, start, stats, stderr, exc,
                 exit_code, calls>>

\* OpRaises with the exception caught and the iteration tried again
OpRaisesRetried ==
  /\ pc = "in_op"
  /\ trace' = Append(trace, Ev("raise", itr_idx))
  /\ pc' = "loop"
  /\ UNCHANGED <<argv, file, args, config, fs, op, itr_idx, start, times, stats,
                 stdout, stderr, exc, exit_code, now, calls>>

\* op raises: nothing catches it
OpRaises ==
  /\ pc = "in_op"
  /\ Uncaught("OSError")
  /\ trace' = Append(trace, Ev("raise", itr_idx))
  /\ UNCHANGED <<argv, file, args, config, fs, op, itr_idx, start, times, stats,
                 stdout, now, calls>>

\* what follows print_results: its exception propagates, or the process
\* ends with status 0
Reported(r) ==
  /\ stats' = r.stats
  /\ stdout' = r.out
  /\ IF r.exc # NoExc
     THEN Uncaught(r.exc)
     ELSE /\ pc' = "exited"
          /\ exit_code' = 0
          /\ UNCHANGED <<exc, stderr>>

\* the loop is over: print_results, then the process ends
Report ==
  /\ pc = "loop"
  /\ ~(itr_idx < args.num_iters)
  /\ \E r \in print_results(stdout, args.operation, config, times) :
       Reported(r)
  /\ trace' = trace \o (IF times = <<>>
                         THEN <<Ev("calculate_stats", 0)>>
                         ELSE <<Ev("calculate_stats", Len(times)),
                                Ev("report", 0)>>)
  /\ UNCHANGED <<argv, file, args, config, fs, op, itr_idx, start, times, now,
                 calls>>

Next ==
  \/ ParseArgs
  \/ LoadConfig
  \/ StartBenchmark
  \/ IterationCall
  \/ \E d \in Ticks : OpReturns(d)
  \/ OpRaises
  \/ Report

Spec == Init /\ [][Next]_vars

------------------------------------------------------------------------------
(* calculate_stats on its own                                               *)

RECURSIVE SeqsUpTo(_, _)
SeqsUpTo(S, n) ==
  IF n = 0 THEN {<<>>}
  ELSE LET shorter == SeqsUpTo(S, n - 1)
       IN  shorter \cup {Append(q, x) : q \in shorter, x \in S}

InitStats ==
  /\ argv = [operation |-> "list_all", num_iters |-> FlagAbsent,
             flag_first |-> FALSE]
  /\ file = FileValue
  /\ pc = "stats_call"
  /\ times \in SeqsUpTo(Samples, MaxLen)
  /\ Blank

CalcStats ==
  /\ pc = "stats_call"
  /\ stats' \in calculate_stats(times)
  /\ pc' = "stats_done"
  /\ UNCHANGED <<argv, file, args, config, fs, op, itr_idx, start, times,
                 stdout, stderr, exc, exit_code, now, calls, trace>>

NextStats == CalcStats

SpecStats == InitStats /\ [][NextStats]_vars

------------------------------------------------------------------------------
(* Vocabulary of the properties                                             *)

\* the places in the trace where the program did `name`
Pos(name) == {p \in 1..Len(trace) : trace[p].ev = name}

Did(name) == Pos(name) # {}

\* the line `Iteration <i>: <elapsed>s`
ProgressLine(i, elapsed) ==
  <<Lit("Iteration "), IntPart(i), Lit(": "), FloatPart(elapsed), Lit("s")>>

\* the line `Starting benchmark: <operation>`
Banner == <<Lit("Starting benchmark: "), StrPart(args.operation)>>

\* the report block for the statistics st, as lines
ReportBlock(st) == Lines(report_lines(<<>>, args.operation, config, st))

NonPositiveCount ==
  argv.num_iters.present /\ argv.num_iters.isint /\ argv.num_iters.n <= 0

UsageError == stderr # <<>> /\ stderr[1] = "usage: S3Benchmark"

AllSame(ts) == \A i \in 1..Len(ts) : ts[i] = ts[1]

\* what the program did inside the loop, in order
IterEvents == {"print_prefix", "time_start", "invoke", "return", "time_end",
               "print_elapsed", "append", "raise"}

InLoop(e) == e.ev \in IterEvents

IterTrace == SelectSeq(trace, InLoop)

\* the phase of the flow Load -> Connect -> Run -> Report a step belongs to
Phase(e) ==
  CASE e.ev = "parse_args" -> 0
    [] e.ev = "load_config" -> 1
    [] e.ev \in {"create_fs", "lookup"} -> 2
    [] e.ev \in IterEvents -> 3
    [] OTHER -> 4

------------------------------------------------------------------------------
(* C1: a run of N >= 1 iterations whose every call succeeds invokes the     *)
(* operation N times, collects N samples, and prints N progress lines of    *)
(* the form `Iteration <i>: <elapsed>s` followed by exactly one report      *)
(* block.  The banner line that precedes them is allowed for.               *)
C1_NLinesThenReport ==
  (pc = "exited" /\ exit_code = 0 /\ args.num_iters >= 1) =>
    /\ Len(calls) = args.num_iters
    /\ Len(times) = args.num_iters
    /\ Lines(stdout) =
         <<Banner>>
           \o [i \in 1..args.num_iters |-> ProgressLine(i - 1, times[i])]
           \o ReportBlock(stats)

(* C2: when the k-th call raises, the run ends there with a non-zero exit   *)
(* status, the operation is not invoked again, no statistics are computed   *)
(* or reported, and the lines printed (after the banner) are the progress   *)
(* lines of the k-1 completed iterations and nothing else.                  *)
C2_AbortLeavesCompletedLines ==
  exc = "OSError" =>
    /\ pc = "exited"
    /\ exit_code # 0
    /\ trace[Len(trace)].ev = "raise"
    /\ Cardinality(Pos("invoke")) = Len(times) + 1
    /\ ~Did("calculate_stats")
    /\ ~Did("report")
    /\ stats = NoStats
    /\ Lines(stdout) =
         <<Banner>> \o [i \in 1..Len(times) |-> ProgressLine(i - 1, times[i])]

(* C3: a count --num_iters <= 0 is rejected by argument parsing with a      *)
(* usage error and a non-zero exit status, before the configuration is      *)
(* loaded, a client created or an iteration run; and calculate_stats is     *)
(* never called on an empty sequence.                                       *)
C3_NonPositiveCountRejected ==
  /\ (NonPositiveCount /\ pc # "main") =>
       /\ pc = "exited"
       /\ exit_code = 2
       /\ UsageError
       /\ ~Did("load_config")
       /\ ~Did("create_fs")
       /\ ~Did("invoke")
       /\ config = NoConfig
       /\ fs = NoFs
  /\ \A p \in Pos("calculate_stats") : trace[p].i > 0

(* C4: an operation name that is no key of the registry is stopped by       *)
(* argument validation: a usage error, exit status 2, and neither the       *)
(* configuration loaded, nor the client created, nor the registry looked    *)
(* up; so the lookup only ever sees a registered name.                      *)
C4_UnknownOperationRejected ==
  /\ (argv.operation \notin operations /\ pc # "main") =>
       /\ pc = "exited"
       /\ exit_code = 2
       /\ UsageError
       /\ ~Did("load_config")
       /\ ~Did("create_fs")
       /\ ~Did("lookup")
       /\ config = NoConfig
       /\ fs = NoFs
       /\ stdout = <<>>
  /\ Did("lookup") => (args.operation \in operations /\ exc # "KeyError")

C4_Witness ==
  /\ argv.operation \notin operations
  /\ pc = "exited"
  /\ exit_code = 2
  /\ trace = <<Ev("parse_args", 0)>>

(* C5: a configuration file without `bucket` makes load_config fail with    *)
(* a ConfigError, before any client is created or any call attempted.       *)
C5_MissingBucketIsConfigError ==
  ("bucket" \notin DOMAIN file /\ Did("load_config")) =>
    /\ exc = "ConfigError"
    /\ pc = "exited"
    /\ exit_code # 0
    /\ fs = NoFs
    /\ ~Did("create_fs")
    /\ calls = <<>>

(* C6: for a file that holds `bucket`, load_config returns the file's       *)
(* bucket, and for region, prefix and endpoint the file's value when the    *)
(* key is there and otherwise "us-east-1", "" and None.                     *)
C6_ValuesOrDefaults ==
  ("bucket" \in DOMAIN file /\ Did("load_config")) =>
    /\ exc # "NameError"
    /\ config.bucket = file["bucket"]
    /\ config.region =
         IF "region" \in DOMAIN file THEN file["region"] ELSE Str("us-east-1")
    /\ config.prefix =
         IF "prefix" \in DOMAIN file THEN file["prefix"] ELSE Str("")
    /\ config.endpoint =
         IF "endpoint" \in DOMAIN file THEN file["endpoint"] ELSE None

C6_Witness ==
  /\ DOMAIN file = {"bucket", "prefix"}
  /\ Did("load_config")
  /\ config = [region |-> Str("us-east-1"), bucket |-> Str("my-bucket"),
               prefix |-> Str("data"), endpoint |-> None]

(* C7: for a non-empty sequence calculate_stats returns the smallest and    *)
(* the largest sample as min and max, min <= mean <= max, stddev >= 0 with  *)
(* the population formula (sqrt(2/3) for 1.0, 2.0, 3.0), and for identical  *)
(* samples stddev = 0 and min = mean = max.                                 *)
C7_StatsOrdered ==
  (pc = "stats_done" /\ times # <<>>) =>
    /\ stats.exc = NoExc
    /\ \E i \in 1..Len(times) : stats.min = times[i]
    /\ \A i \in 1..Len(times) : FLe(stats.min, times[i])
    /\ \E i \in 1..Len(times) : stats.max = times[i]
    /\ \A i \in 1..Len(times) : FLe(times[i], stats.max)
    /\ FLe(stats.min, stats.mean)
    /\ FLe(stats.mean, stats.max)
    /\ stats.stddev.s = 0
    /\ (times = <<FromNat(1), FromNat(2), FromNat(3)>>
          => stats.stddev = FSqrt(FDivNat(FromNat(2), 3)))
    /\ AllSame(times) =>
         /\ stats.stddev = FZero
         /\ stats.min = stats.mean
         /\ stats.mean = stats.max

(* C8: one linear flow Load -> Connect -> Run -> Report: no phase is        *)
(* entered before an earlier one, the configuration is loaded, the client   *)
(* created and the report printed at most once, the client only after       *)
(* load_config returned a configuration, no call before the client exists,  *)
(* every call with that client and that configuration, the report only      *)
(* after the last iteration, and nothing at all after a failure.            *)
C8_LinearFlow ==
  /\ \A p, q \in 1..Len(trace) : p < q => Phase(trace[p]) <= Phase(trace[q])
  /\ \A name \in {"parse_args", "load_config", "create_fs", "lookup", "report"} :
       Cardinality(Pos(name)) <= 1
  /\ \A p \in Pos("create_fs") :
       /\ \E q \in Pos("load_config") : q < p
       /\ config = load_config(file).config
       /\ config # NoConfig
       /\ fs = create_fs(config)
  /\ (~Did("create_fs")) => (fs = NoFs /\ calls = <<>> /\ ~Did("invoke"))
  /\ (~Did("load_config")) => config = NoConfig
  /\ Len(calls) = Cardinality(Pos("invoke"))
  /\ \A c \in 1..Len(calls) : calls[c].fs = fs /\ calls[c].config = config
  /\ \A p \in Pos("report") :
       /\ p = Len(trace)
       /\ Len(times) = args.num_iters
       /\ Cardinality(Pos("append")) = args.num_iters
       /\ Cardinality(Pos("return")) = Cardinality(Pos("invoke"))
  /\ (exc # NoExc \/ args.err \notin {NoExc, "unparsed"}) =>
       /\ pc = "exited"
       /\ exit_code # 0
       /\ ~Did("report")
  /\ \A p \in Pos("raise") : p = Len(trace) /\ exc = "OSError"
  /\ exc = "NameError" => trace[Len(trace)].ev = "load_config"
  /\ exc = "ValueError" => trace[Len(trace)].ev = "calculate_stats"
  /\ (args.err \notin {NoExc, "unparsed"}) => trace = <<Ev("parse_args", 0)>>

C8_Witness ==
  /\ pc = "exited"
  /\ exit_code = 0
  /\ Len(calls) = 2
  /\ Did("report")

(* C9: within an iteration the order is start, invoke, end, append, print,  *)
(* and nothing of iteration i's progress line is emitted before its call    *)
(* has returned; iterations follow one another in ascending order.          *)
C9_PrintAfterAppend ==
  /\ \A p, q \in 1..Len(IterTrace) : p < q => IterTrace[p].i <= IterTrace[q].i
  /\ \A p \in 1..Len(trace) :
       /\ trace[p].ev = "invoke" =>
            \E q \in 1..(p - 1) : trace[q] = Ev("time_start", trace[p].i)
       /\ trace[p].ev = "time_end" =>
            \E q \in 1..(p - 1) : trace[q] = Ev("return", trace[p].i)
       /\ trace[p].ev = "append" =>
            \E q \in 1..(p - 1) : trace[q] = Ev("time_end", trace[p].i)
       /\ trace[p].ev \in {"print_prefix", "print_elapsed"} =>
            /\ \E q \in 1..(p - 1) : trace[q] = Ev("return", trace[p].i)
            /\ \E q \in 1..(p - 1) : trace[q] = Ev("append", trace[p].i)

(* C10: the samples are append-only, one per call that has returned, never  *)
(* more of them than the requested count, and never more calls than the     *)
(* requested count.                                                         *)
C10_SamplesOnePerReturn ==
  /\ [](/\ Len(times) = Cardinality(Pos("return"))
        /\ Len(times) = Cardinality(Pos("append"))
        /\ args.err = NoExc =>
             /\ Len(times) <= args.num_iters
             /\ Cardinality(Pos("invoke")) <= args.num_iters)
  /\ [][/\ Len(times') >= Len(times)
        /\ SubSeq(times', 1, Len(times)) = times]_vars
====
